---- MODULE Spec2Model ----
(***************************************************************************)
(* State-machine model of Random_Video.py (class VideoSelector): the       *)
(* weighted random selection of a video and the history table in SQLite    *)
(* with in-place edit, rename, delete and single-slot undo.                *)
(*                                                                         *)
(* Representation.                                                         *)
(*  - A path is a record [dir, stem, ext]: os.path.dirname gives dir,      *)
(*    os.path.basename gives stem \o ext, os.path.splitext gives ext.      *)
(*    A typed name may hold a separator ("new/a"): os.path.join then       *)
(*    yields a path in a subdirectory, as the string it builds reads.      *)
(*  - A directory exists when it is Root or Sub or holds a file; no        *)
(*    handler removes a directory or takes the last file out of one.       *)
(*  - A REAL rating is an integer number of tenths (7.5 is 75).            *)
(*  - A value that may be None or NULL is a sequence: <<>> for None and    *)
(*    <<x>> for the value x.                                               *)
(*  - opened_at ('yyyy-MM-dd HH:mm:ss', compared as text by SQLite) is the *)
(*    number of the second it denotes; the fixed-width format orders as    *)
(*    the seconds do.                                                      *)
(*  - The videos table is the sequence of its rows in rowid order (a new   *)
(*    rowid is larger than all present ones, so INSERT appends).  No       *)
(*    statement of the program reads the id column.                        *)
(*  - history_table holds, per displayed row, the path kept in the Name    *)
(*    cell's Qt.UserRole; the cell texts are inputs of the edit handlers.  *)
(*  - The text of recent_file_label is no variable: the row that           *)
(*    load_last_opened_video reads is reported in lastOp.  The search      *)
(*    filter stays empty, and rename_input and rating_input are read as    *)
(*    inputs of update_details.                                            *)
(*  - lastOp records the handler that ran last and what it showed, so      *)
(*    that properties can speak of a handler's outcome.                    *)
(***************************************************************************)
EXTENDS Integers, Sequences, FiniteSets, TLC

VARIABLES
    videos,               \* rows of table videos, in rowid order
    files,                \* paths of the files present on disk
    last_deleted_entry,   \* self.last_deleted_entry
    selected_directory,   \* self.selected_directory ("" = none)
    selected_video_path,  \* self.selected_video_path
    selected_file_ext,    \* self.selected_file_ext
    bias_slider,          \* self.bias_slider.value()
    history_table,        \* rows of self.history_table (UserRole paths)
    dialog_open,          \* self.history_dialog is executing (modal)
    clock,                \* QDateTime.currentDateTime(), in seconds
    lastOp                \* the handler that ran last and what it reported

vars == <<videos, files, last_deleted_entry, selected_directory,
          selected_video_path, selected_file_ext, bias_slider, history_table,
          dialog_open, clock, lastOp>>

None == <<>>
Some(x) == <<x>>
TheVal(o) == o[1]

\* ---------------------------------------------------------------- bounds
MaxRows == 2      \* rows the videos table may hold
MaxClock == 1     \* last second the clock reaches
RandomDen == 4    \* random.random() draws k / RandomDen, k in 0..RandomDen-1

\* ------------------------------------------------------------ file names
Root == "root"
Sub == "root/sub"
New == "root/new"
Dirs == {Root, Sub}

\* os.walk(top): the directories visited, top first
WalkDirs(top) ==
    IF top = Root THEN {Root, Sub, New}
    ELSE IF top \in {Sub, New} THEN {top} ELSE {}

P(d, s, e) == [dir |-> d, stem |-> s, ext |-> e]

basename(p) == p.stem \o p.ext
dirname(p) == p.dir
splitext(p) == p.ext

\* a typed name as the path functions read it: what is before its last
\* separator and what is after it
NameDir(n) == IF n = "new/a" THEN "new" ELSE ""
NameBase(n) == IF n = "new/a" THEN "a" ELSE n

\* os.path.join(d, name + ext), as dirname, basename and splitext split it
join(d, name, ext) ==
    P(IF NameDir(name) = "" THEN d ELSE d \o "/" \o NameDir(name),
      NameBase(name), ext)

\* str.lower() on the extensions in use
lower(e) ==
    CASE e = ".MKV" -> ".mkv"
      [] e = ".MP4" -> ".mp4"
      [] OTHER -> e

VideoExts == {".mp4", ".avi", ".mkv", ".mov"}

\* mutants of IsVideo: no filter on the extension; lower() left out
IsVideoAny(p) == TRUE
IsVideoCaseSensitive(p) == p.ext \in VideoExts

\* file.lower().endswith(('.mp4', '.avi', '.mkv', '.mov'))
IsVideo(p) == lower(p.ext) \in VideoExts

\* the files a run may start with, and the texts a user may type as a name
StoreFiles == {P(Root, "a", ".mp4"), P(Sub, "b", ".MKV")}
PickFiles == {P(Root, "a", ".mp4"), P(Root, "n", ".txt"),
              P(Sub, "b", ".MKV"), P(Sub, "m", ".txt"), P(Sub, "d", ".mp4")}
NewNames == {"a", "new/a"}

\* ---------------------------------------------------------------- ratings
\* the texts a user may type as a rating: a number (beyond the 0.0 - 10.0 of
\* the placeholder), a word, nothing
RatingTexts == {"11", "abc", ""}

\* float(text): [ok |-> FALSE] stands for ValueError
float(text) ==
    CASE text = "7.5" -> [ok |-> TRUE, val |-> 75]
      [] text = "11" -> [ok |-> TRUE, val |-> 110]
      [] OTHER -> [ok |-> FALSE, val |-> 0]

\* ---------------------------------------------------------------- slider
BiasValues == {0, 50, 100}

\* ------------------------------------------------------------- SQL pieces
Row(p, n, r, t) == [path |-> p, name |-> n, rating |-> r, opened_at |-> t]

\* SELECT ... FROM videos WHERE path = ?  (table scan, rowid order)
SelectWherePath(v, p) == SelectSeq(v, LAMBDA r : r.path = p)

\* cursor.fetchone(): the first row of the result, or None
fetchone(rows) == IF rows = <<>> THEN None ELSE Some(Head(rows))

\* DELETE FROM videos WHERE path = ?
DeleteWherePath(v, p) == SelectSeq(v, LAMBDA r : r.path # p)

\* mutant of UpdateRating: the WHERE clause left out
UpdateRatingAll(v, rating, p) ==
    [i \in DOMAIN v |-> [v[i] EXCEPT !.rating = rating]]

\* UPDATE videos SET rating = ? WHERE path = ?
UpdateRating(v, rating, p) ==
    [i \in DOMAIN v |->
        IF v[i].path = p THEN [v[i] EXCEPT !.rating = rating] ELSE v[i]]

\* UPDATE videos SET name = ?, path = ? WHERE path = ?
UpdateNamePath(v, name, new_path, old_path) ==
    [i \in DOMAIN v |->
        IF v[i].path = old_path
        THEN [v[i] EXCEPT !.name = name, !.path = new_path]
        ELSE v[i]]

\* INSERT INTO videos (path, name, rating, opened_at) VALUES (?, ?, ?, ?)
InsertVideo(v, p, n, r, t) == Append(v, Row(p, n, r, t))

\* ORDER BY opened_at DESC; rows of equal opened_at stay in rowid order here
\* (the order of the displayed rows is not read: a handler's row is an input)
RECURSIVE InsertDesc(_, _)
InsertDesc(r, sorted) ==
    IF sorted = <<>> THEN <<r>>
    ELSE IF Head(sorted).opened_at <= r.opened_at THEN <<r>> \o sorted
    ELSE <<Head(sorted)>> \o InsertDesc(r, Tail(sorted))

RECURSIVE OrderByOpenedAtDesc(_)
OrderByOpenedAtDesc(v) ==
    IF v = <<>> THEN <<>>
    ELSE InsertDesc(Head(v), OrderByOpenedAtDesc(Tail(v)))

\* mutant of MostRecentRows: ORDER BY opened_at ASC
MostRecentRowsOldest(v) ==
    {v[i] : i \in {j \in DOMAIN v :
                     \A k \in DOMAIN v : v[k].opened_at >= v[j].opened_at}}

\* SELECT name FROM videos ORDER BY opened_at DESC LIMIT 1: the rows the
\* statement may return (SQL leaves the order of equal keys open)
MostRecentRows(v) ==
    {v[i] : i \in {j \in DOMAIN v :
                     \A k \in DOMAIN v : v[k].opened_at <= v[j].opened_at}}

\* update_history_table with an empty search term: one row per table row
update_history_table(v) ==
    LET h == OrderByOpenedAtDesc(v) IN [i \in DOMAIN h |-> h[i].path]

\* the directory d is on disk
DirExists(fs, d) == d \in Dirs \/ \E f \in fs : f.dir = d

\* os.rename(old, new): raises when old is missing, when the directory of
\* new does not exist or when the system refuses (refuse); otherwise new
\* takes the place of old
RenameFails(fs, old, new, refuse) ==
    old \notin fs \/ ~DirExists(fs, new.dir) \/ refuse
RenamedFiles(fs, old, new) == (fs \ {old}) \cup {new}

\* QDateTime.currentDateTime(): the clock never runs backwards
Now == {t \in clock .. clock + 1 : t <= MaxClock}

\* What the last handler was and reported: msg is the text of its message
\* box ("raised" for an exception leaving the handler), path the path it
\* worked on, arg the text the user typed, rows the rows a delete found under
\* its path when it started, log the effects it had, in order, after the
\* handler that ran before it and its message (kept for undo and a restart),
\* and slot what a confirmed delete found in last_deleted_entry.
Op(op, msg, path, rows, log) ==
    [op |-> op, msg |-> msg, path |-> path, arg |-> "", rows |-> rows,
     log |-> log, after |-> <<>>, slot |-> None]
OpArg(o, arg) == [o EXCEPT !.arg = arg]
OpAfter(o, prev) == [o EXCEPT !.after = <<prev.op, prev.msg>>]
OpSlot(o, slot) == [o EXCEPT !.slot = slot]

\* ------------------------------------------------------------------ Init
\* __init__ on a database without rows
InitCommon ==
    /\ videos = <<>>
    /\ last_deleted_entry = None
    /\ selected_video_path = None
    /\ selected_file_ext = ""
    /\ bias_slider = 50
    /\ history_table = <<>>
    /\ dialog_open = FALSE
    /\ clock = 0
    /\ lastOp = Op("__init__", "", None, <<>>, <<>>)

\* the history store: the settings name the directory Root, and the files of
\* StoreFiles are on disk
Init == InitCommon /\ selected_directory = Root /\ files = StoreFiles

\* the history store over a tree with one more directory, root/new, which
\* holds a file that is no video
InitRename ==
    /\ InitCommon
    /\ selected_directory = Root
    /\ files = StoreFiles \cup {P(New, "x", ".txt")}

\* the selection: no directory chosen yet, over every tree of PickFiles
InitPick == InitCommon /\ selected_directory = "" /\ files \in SUBSET PickFiles

\* --------------------------------------------------------- main window
on_bias_changed ==
    /\ ~dialog_open
    /\ \E value \in BiasValues :
        /\ bias_slider' = value
        /\ lastOp' = Op("on_bias_changed", "", None, <<>>, <<>>)
    /\ UNCHANGED <<videos, files, last_deleted_entry, selected_directory,
                   selected_video_path, selected_file_ext, history_table,
                   dialog_open, clock>>

select_directory ==
    /\ ~dialog_open
    /\ \E directory \in Dirs \cup {""} :
        /\ selected_directory' =
              IF directory # "" THEN directory ELSE selected_directory
        /\ lastOp' = Op("select_directory", "", None, <<>>, <<>>)
    /\ UNCHANGED <<videos, files, last_deleted_entry, selected_video_path,
                   selected_file_ext, bias_slider, history_table, dialog_open,
                   clock>>

\* the files os.walk finds, split as open_random_video splits them
main_videos(fs, top) == {f \in fs : IsVideo(f) /\ f.dir = top}
sub_videos(fs, top) ==
    {f \in fs : IsVideo(f) /\ f.dir \in WalkDirs(top) /\ f.dir # top}

\* mutant of DrawsMain: <= for <
DrawsMainInclusive(k, slider) == k * 100 <= (100 - slider) * RandomDen

\* random.random() < p_main, with p_main = 1.0 - slider / 100.0
DrawsMain(k, slider) == k * 100 < (100 - slider) * RandomDen

\* the lists a draw k picks from
Candidates(fs, top, slider, k) ==
    IF main_videos(fs, top) = {} THEN sub_videos(fs, top)
    ELSE IF sub_videos(fs, top) = {} THEN main_videos(fs, top)
    ELSE IF DrawsMain(k, slider) THEN main_videos(fs, top)
    ELSE sub_videos(fs, top)

\* mutant of OpenChosen: add_to_history runs before open_with_default_app
OpenChosenRecordFirst(v, chosen, launched, now) ==
    [videos |-> InsertVideo(v, chosen, basename(chosen), None, now),
     recorded |-> TRUE,
     msg |-> IF launched THEN "" ELSE "raised",
     log |-> <<"insert", "launch">>]

\* open_random_video, lines 303-306: open_with_default_app(chosen), then
\* add_to_history(chosen) when that call returned (launched); when it raised
\* the exception leaves the handler
OpenChosen(v, chosen, launched, now) ==
    IF launched
    THEN [videos |-> InsertVideo(v, chosen, basename(chosen), None, now),
          recorded |-> TRUE, msg |-> "", log |-> <<"launch", "insert">>]
    ELSE [videos |-> v, recorded |-> FALSE, msg |-> "raised",
          log |-> <<"launch">>]

open_random_video ==
    /\ ~dialog_open
    /\ UNCHANGED <<files, last_deleted_entry, selected_directory,
                   selected_video_path, selected_file_ext, bias_slider,
                   history_table, dialog_open>>
    /\ \/ /\ selected_directory = ""
          /\ lastOp' = Op("open_random_video",
                          "Please select a directory first!", None, <<>>, <<>>)
          /\ UNCHANGED <<videos, clock>>
       \/ /\ selected_directory # ""
          /\ main_videos(files, selected_directory) = {}
          /\ sub_videos(files, selected_directory) = {}
          /\ lastOp' = Op("open_random_video",
                          "No videos found in the selected directory!",
                          None, <<>>, <<>>)
          /\ UNCHANGED <<videos, clock>>
       \/ /\ selected_directory # ""
          /\ main_videos(files, selected_directory)
                \cup sub_videos(files, selected_directory) # {}
          /\ \E k \in 0 .. RandomDen - 1 :
             \E chosen \in Candidates(files, selected_directory, bias_slider, k) :
             \E launched \in BOOLEAN, now \in Now :
                LET e == OpenChosen(videos, chosen, launched, now) IN
                /\ e.recorded => Len(videos) < MaxRows
                /\ videos' = e.videos
                /\ clock' = IF e.recorded THEN now ELSE clock
                /\ lastOp' = Op("open_random_video", e.msg, Some(chosen),
                                <<>>, e.log)

\* Quit and start again: __init__ over the database and settings on disk
restart ==
    /\ ~dialog_open
    /\ last_deleted_entry' = None
    /\ selected_video_path' = None
    /\ selected_file_ext' = ""
    /\ bias_slider' = 50
    /\ IF videos = <<>>
       THEN lastOp' = OpAfter(Op("__init__", "", None, <<>>, <<>>), lastOp)
       ELSE \E result \in MostRecentRows(videos) :
            \* recent_file_label shows result.name
            lastOp' = OpAfter(Op("__init__", "", Some(result.path), <<>>,
                                 <<"load_last_opened_video">>), lastOp)
    /\ UNCHANGED <<videos, files, selected_directory, history_table,
                   dialog_open, clock>>

\* ------------------------------------------------------ history dialog
open_detailed_history ==
    /\ ~dialog_open
    /\ dialog_open' = TRUE
    /\ history_table' = update_history_table(videos)
    /\ lastOp' = Op("open_detailed_history", "", None, <<>>, <<>>)
    /\ UNCHANGED <<videos, files, last_deleted_entry, selected_directory,
                   selected_video_path, selected_file_ext, bias_slider,
                   clock>>

\* history_dialog.exec() returns: the dialog and its table are gone
close_history_dialog ==
    /\ dialog_open
    /\ dialog_open' = FALSE
    /\ history_table' = <<>>
    /\ lastOp' = Op("close_history_dialog", "", None, <<>>, <<>>)
    /\ UNCHANGED <<videos, files, last_deleted_entry, selected_directory,
                   selected_video_path, selected_file_ext, bias_slider,
                   clock>>

select_video_for_editing ==
    /\ dialog_open
    /\ \E row \in DOMAIN history_table :
        /\ selected_video_path' = Some(history_table[row])
        /\ selected_file_ext' = splitext(history_table[row])
        /\ lastOp' = Op("select_video_for_editing", "",
                        Some(history_table[row]), <<>>, <<>>)
    /\ UNCHANGED <<videos, files, last_deleted_entry, selected_directory,
                   bias_slider, history_table, dialog_open,
                   clock>>

\* cell_changed, column 0: what the handler leaves in the table videos and
\* reports
CellChangedRating(v, path, new_rating_str) ==
    IF ~float(new_rating_str).ok
    THEN [videos |-> v, msg |-> "Rating must be a number.", log |-> <<>>]
    ELSE [videos |-> UpdateRating(v, Some(float(new_rating_str).val), path),
          msg |-> "", log |-> <<"update rating">>]

\* cell_changed, column 1
CellChangedName(v, fs, old_path, new_name, refuse) ==
    LET file_ext == splitext(old_path)
        new_path == join(dirname(old_path), new_name, file_ext)
    IN  IF RenameFails(fs, old_path, new_path, refuse)
        THEN [videos |-> v, files |-> fs, msg |-> "Error renaming file",
              user_role |-> old_path, log |-> <<>>]
        ELSE [videos |-> UpdateNamePath(v, new_name \o file_ext, new_path,
                                        old_path),
              files |-> RenamedFiles(fs, old_path, new_path), msg |-> "",
              user_role |-> new_path, log |-> <<"rename", "update name">>]

cell_changed ==
    /\ dialog_open
    /\ \E row \in DOMAIN history_table :
       LET path == history_table[row] IN
       \/ \E new_rating_str \in RatingTexts :
          LET e == CellChangedRating(videos, path, new_rating_str) IN
            /\ videos' = e.videos
            /\ lastOp' = OpArg(Op("cell_changed 0", e.msg, Some(path), <<>>,
                                  e.log), new_rating_str)
            /\ UNCHANGED <<files, history_table>>
       \/ \E new_name \in NewNames, refuse \in BOOLEAN :
          LET e == CellChangedName(videos, files, path, new_name, refuse) IN
            /\ videos' = e.videos
            /\ files' = e.files
            /\ history_table' = [history_table EXCEPT ![row] = e.user_role]
            /\ lastOp' = OpArg(Op("cell_changed 1", e.msg, Some(path), <<>>,
                                  e.log), new_name)
    /\ UNCHANGED <<last_deleted_entry, selected_directory,
                   selected_video_path, selected_file_ext, bias_slider,
                   dialog_open, clock>>

\* mutant of UpdateDetailsRename: the UPDATE runs before os.rename
UpdateDetailsRenameDbFirst(v, fs, sel, ext, new_name, refuse) ==
    IF sel # None /\ new_name # ""
    THEN LET old_path == TheVal(sel)
             new_path == join(dirname(old_path), new_name, ext)
             updated == UpdateNamePath(v, new_name \o ext, new_path, old_path)
         IN  IF RenameFails(fs, old_path, new_path, refuse)
             THEN [videos |-> updated, files |-> fs, sel |-> sel,
                   raised |-> TRUE, log |-> <<"update name">>]
             ELSE [videos |-> updated,
                   files |-> RenamedFiles(fs, old_path, new_path),
                   sel |-> Some(new_path), raised |-> FALSE,
                   log |-> <<"update name", "rename">>]
    ELSE [videos |-> v, files |-> fs, sel |-> sel, raised |-> FALSE,
          log |-> <<>>]

\* update_details, lines 552-561: the rename part.  raised: os.rename raised
\* and the exception leaves the handler
UpdateDetailsRename(v, fs, sel, ext, new_name, refuse) ==
    IF sel # None /\ new_name # ""
    THEN LET old_path == TheVal(sel)
             new_path == join(dirname(old_path), new_name, ext)
         IN  IF RenameFails(fs, old_path, new_path, refuse)
             THEN [videos |-> v, files |-> fs, sel |-> sel, raised |-> TRUE,
                   log |-> <<>>]
             ELSE [videos |-> UpdateNamePath(v, new_name \o ext, new_path,
                                             old_path),
                   files |-> RenamedFiles(fs, old_path, new_path),
                   sel |-> Some(new_path), raised |-> FALSE,
                   log |-> <<"rename", "update name">>]
    ELSE [videos |-> v, files |-> fs, sel |-> sel, raised |-> FALSE,
          log |-> <<>>]

\* update_details, lines 563-574: the rating part, on the state the rename
\* part left
UpdateDetailsRating(v, sel, rating_text) ==
    IF rating_text # "" /\ ~float(rating_text).ok
    THEN [videos |-> v, msg |-> "Rating must be a number.", log |-> <<>>]
    ELSE LET rating == IF rating_text # ""
                       THEN Some(float(rating_text).val) ELSE None
         IN  IF sel # None
             THEN [videos |-> UpdateRating(v, rating, TheVal(sel)),
                   msg |-> "Details updated successfully!",
                   log |-> <<"update rating">>]
             ELSE [videos |-> v, msg |-> "Details updated successfully!",
                   log |-> <<>>]

update_details ==
    /\ dialog_open
    /\ \E new_name \in NewNames \cup {""}, rating_text \in RatingTexts,
          refuse \in BOOLEAN :
       LET rn == UpdateDetailsRename(videos, files, selected_video_path,
                                     selected_file_ext, new_name, refuse)
           rt == UpdateDetailsRating(rn.videos, rn.sel, rating_text)
       IN  IF rn.raised
           THEN /\ videos' = rn.videos
                /\ files' = rn.files
                /\ selected_video_path' = rn.sel
                /\ history_table' = history_table
                /\ lastOp' = OpArg(Op("update_details", "raised",
                                      selected_video_path, <<>>, rn.log),
                                   rating_text)
           ELSE /\ videos' = rt.videos
                /\ files' = rn.files
                /\ selected_video_path' = rn.sel
                /\ history_table' =
                      IF rt.msg = "Details updated successfully!"
                      THEN update_history_table(rt.videos)
                      ELSE history_table
                /\ lastOp' = OpArg(Op("update_details", rt.msg,
                                      selected_video_path, <<>>,
                                      rn.log \o rt.log), rating_text)
    /\ UNCHANGED <<last_deleted_entry, selected_directory, selected_file_ext,
                   bias_slider, dialog_open, clock>>

\* delete_selected_entry after the user confirmed, lines 605-613
DeleteEntry(v, path) ==
    [videos |-> DeleteWherePath(v, path),
     last_deleted_entry |-> fetchone(SelectWherePath(v, path))]

delete_selected_entry ==
    /\ dialog_open
    /\ UNCHANGED <<files, selected_directory, selected_file_ext, bias_slider,
                   dialog_open, clock>>
    /\ IF selected_video_path = None
       THEN /\ lastOp' = Op("delete_selected_entry",
                            "Please select a video entry to delete.", None,
                            <<>>, <<>>)
            /\ UNCHANGED <<videos, last_deleted_entry, selected_video_path,
                           history_table>>
       ELSE \E confirm \in BOOLEAN :
            LET path == TheVal(selected_video_path)
                e == DeleteEntry(videos, path)
            IN  IF confirm
                THEN /\ videos' = e.videos
                     /\ last_deleted_entry' = e.last_deleted_entry
                     /\ selected_video_path' = None
                     /\ history_table' = update_history_table(e.videos)
                     /\ lastOp' = OpSlot(Op("delete_selected_entry",
                                            "Entry deleted from history.",
                                            Some(path),
                                            SelectWherePath(videos, path),
                                            <<"delete">>),
                                         last_deleted_entry)
                ELSE /\ lastOp' = Op("delete_selected_entry", "", Some(path),
                                     <<>>, <<>>)
                     /\ UNCHANGED <<videos, last_deleted_entry,
                                    selected_video_path, history_table>>

\* mutants of UndoDelete: the rating is not put back; the test of the slot
\* is inverted (unpacking None raises); the slot is not cleared
UndoDeleteKeepSlot(v, slot) ==
    IF slot # None
    THEN LET d == TheVal(slot) IN
         [videos |-> InsertVideo(v, d.path, d.name, d.rating, d.opened_at),
          last_deleted_entry |-> slot, msg |-> "has been restored to history."]
    ELSE [videos |-> v, last_deleted_entry |-> slot,
          msg |-> "No deleted entry to restore."]
UndoDeleteDropRating(v, slot) ==
    IF slot # None
    THEN LET d == TheVal(slot) IN
         [videos |-> InsertVideo(v, d.path, d.name, None, d.opened_at),
          last_deleted_entry |-> None, msg |-> "has been restored to history."]
    ELSE [videos |-> v, last_deleted_entry |-> slot,
          msg |-> "No deleted entry to restore."]
UndoDeleteInverted(v, slot) ==
    IF slot = None
    THEN [videos |-> v, last_deleted_entry |-> slot, msg |-> "raised"]
    ELSE [videos |-> v, last_deleted_entry |-> slot,
          msg |-> "No deleted entry to restore."]

\* undo_last_delete, lines 625-636
UndoDelete(v, slot) ==
    IF slot # None
    THEN LET d == TheVal(slot) IN
         [videos |-> InsertVideo(v, d.path, d.name, d.rating, d.opened_at),
          last_deleted_entry |-> None, msg |-> "has been restored to history."]
    ELSE [videos |-> v, last_deleted_entry |-> slot,
          msg |-> "No deleted entry to restore."]

undo_last_delete ==
    /\ dialog_open
    /\ last_deleted_entry # None => Len(videos) < MaxRows
    /\ LET e == UndoDelete(videos, last_deleted_entry) IN
        /\ videos' = e.videos
        /\ last_deleted_entry' = e.last_deleted_entry
        /\ history_table' =
              IF last_deleted_entry # None THEN update_history_table(e.videos)
              ELSE history_table
        /\ lastOp' = OpAfter(Op("undo_last_delete", e.msg,
                                IF last_deleted_entry # None
                                THEN Some(TheVal(last_deleted_entry).path)
                                ELSE None,
                                <<>>,
                                IF last_deleted_entry # None
                                THEN <<"insert">> ELSE <<>>), lastOp)
    /\ UNCHANGED <<files, selected_directory, selected_video_path,
                   selected_file_ext, bias_slider, dialog_open,
                   clock>>

add_video_manually ==
    /\ dialog_open
    /\ UNCHANGED <<files, last_deleted_entry, selected_directory,
                   selected_video_path, selected_file_ext, bias_slider,
                   dialog_open>>
    /\ \/ \* the file dialog was cancelled
          /\ lastOp' = Op("add_video_manually", "", None, <<>>, <<>>)
          /\ UNCHANGED <<videos, history_table, clock>>
       \/ /\ Len(videos) < MaxRows
          /\ \E file_path \in files, now \in Now :
             LET v == InsertVideo(videos, file_path, basename(file_path),
                                  None, now)
             IN /\ videos' = v
                /\ clock' = now
                /\ history_table' = update_history_table(v)
                /\ lastOp' = Op("add_video_manually",
                                "was added to the history.", Some(file_path),
                                <<>>, <<"insert">>)

\* ------------------------------------------------------- specifications
Next ==
    \/ open_random_video
    \/ restart
    \/ open_detailed_history
    \/ close_history_dialog
    \/ select_video_for_editing
    \/ cell_changed
    \/ update_details
    \/ delete_selected_entry
    \/ undo_last_delete
    \/ add_video_manually

Spec == Init /\ [][Next]_vars

\* the history dialog alone
NextRename ==
    \/ open_detailed_history
    \/ close_history_dialog
    \/ select_video_for_editing
    \/ cell_changed
    \/ update_details
    \/ add_video_manually

SpecRename == InitRename /\ [][NextRename]_vars

NextPick ==
    \/ on_bias_changed
    \/ select_directory
    \/ open_random_video

SpecPick == InitPick /\ [][NextPick]_vars

\* ================================================================ claims
NoVideosFound == "No videos found in the selected directory!"

\* the allow-list, in the spellings the trees use
AllowListedExts ==
    {".mp4", ".MP4", ".avi", ".AVI", ".mkv", ".MKV", ".mov", ".MOV"}

\* the eligible files of the tree under top, and its two tiers
Eligible(top) == {f \in files : f.ext \in AllowListedExts /\ f.dir \in WalkDirs(top)}
TopLevel(top) == {f \in Eligible(top) : f.dir = top}
Nested(top) == {f \in Eligible(top) : f.dir # top}

\* open_random_video has just chosen a file
Picked == lastOp.op = "open_random_video" /\ lastOp.path # None

\* C8: whatever the bias and the draws, a tree with eligible files at top
\* level only yields a top-level file, and a tree with eligible files in
\* subdirectories only yields a nested file.
C8_SingleTier ==
    Picked =>
        LET chosen == TheVal(lastOp.path) IN
        /\ (TopLevel(selected_directory) # {} /\ Nested(selected_directory) = {})
              => chosen \in TopLevel(selected_directory)
        /\ (Nested(selected_directory) # {} /\ TopLevel(selected_directory) = {})
              => chosen \in Nested(selected_directory)

\* a file was picked from a tree with nested files only, although the bias
\* is all for the top level, beside a top-level file that is no video
C8_Witness ==
    /\ Picked
    /\ bias_slider = 0
    /\ Nested(selected_directory) # {}
    /\ TopLevel(selected_directory) = {}
    /\ \E f \in files : f.dir = selected_directory
    /\ TheVal(lastOp.path) \in Nested(selected_directory)

\* C9: with both tiers present, bias 0.0 yields a top-level file and bias
\* 1.0 a nested file, for every draw.
C9_ExtremeBias ==
    (/\ Picked
     /\ TopLevel(selected_directory) # {}
     /\ Nested(selected_directory) # {})
    => LET chosen == TheVal(lastOp.path) IN
       /\ bias_slider = 0 => chosen \in TopLevel(selected_directory)
       /\ bias_slider = 100 => chosen \in Nested(selected_directory)

\* a nested file picked at bias 1.0 from a tree with both tiers
C9_Witness ==
    /\ Picked
    /\ TopLevel(selected_directory) # {}
    /\ Nested(selected_directory) # {}
    /\ bias_slider = 100
    /\ TheVal(lastOp.path) \in Nested(selected_directory)

\* C10: with a directory selected, open_random_video reports NoVideosFound
\* exactly when the tree holds no allow-listed file; it then launches nothing
\* and records nothing, and otherwise the file it picks is an eligible one.
C10_NoVideosFound ==
    [][(lastOp'.op = "open_random_video" /\ selected_directory # "")
       => /\ lastOp'.msg = NoVideosFound <=> Eligible(selected_directory) = {}
          /\ lastOp'.msg = NoVideosFound
                => /\ videos' = videos
                   /\ lastOp'.log = <<>>
                   /\ lastOp'.path = None
          /\ lastOp'.msg # NoVideosFound
                => /\ lastOp'.path # None
                   /\ TheVal(lastOp'.path) \in Eligible(selected_directory)]_vars

\* NoVideosFound was reported for a tree that holds files, none a video
C10_Witness ==
    /\ lastOp.op = "open_random_video"
    /\ lastOp.msg = NoVideosFound
    /\ \E f \in files : f.dir \in WalkDirs(selected_directory)

Deleted == "Entry deleted from history."
Restored == "has been restored to history."
NothingToUndo == "No deleted entry to restore."
InvalidRating == "Rating must be a number."
RenameError == "Error renaming file"
Success == "Details updated successfully!"

\* C1: a delete that found an entry under its path, followed at once by
\* undo, leaves an entry with the name, rating and path of an entry the
\* delete removed.
C1_DeleteUndo ==
    [][(/\ lastOp.op = "delete_selected_entry"
        /\ lastOp.rows # <<>>
        /\ lastOp'.op = "undo_last_delete")
       => /\ lastOp'.msg = Restored
          /\ \E i \in DOMAIN videos', j \in DOMAIN lastOp.rows :
                /\ videos'[i].name = lastOp.rows[j].name
                /\ videos'[i].rating = lastOp.rows[j].rating
                /\ videos'[i].path = lastOp.rows[j].path]_vars

\* undo has just restored a rated entry that the handler before it deleted
C1_Witness ==
    /\ lastOp.op = "undo_last_delete"
    /\ lastOp.msg = Restored
    /\ lastOp.after = <<"delete_selected_entry", Deleted>>
    /\ \E i \in DOMAIN videos :
          /\ Some(videos[i].path) = lastOp.path
          /\ videos[i].rating # None

\* C2: undo with an empty slot reports NothingToUndo and leaves the rows and
\* the slot as they were.
C2_UndoEmpty ==
    [][(last_deleted_entry = None /\ lastOp'.op = "undo_last_delete")
       => /\ lastOp'.msg = NothingToUndo
          /\ videos' = videos
          /\ last_deleted_entry' = None]_vars

\* a second undo, after the first consumed the slot, found nothing to undo
C2_Witness ==
    /\ lastOp.op = "undo_last_delete"
    /\ lastOp.msg = NothingToUndo
    /\ lastOp.after = <<"undo_last_delete", Restored>>
    /\ videos # <<>>

\* C3: a rename whose file move fails, by a cell edit or by Update Details,
\* changes no row and no file; and the move of a file that is not there fails.
C3_RenameFailed ==
    [][/\ (\/ lastOp'.op = "cell_changed 1" /\ lastOp'.msg = RenameError
           \/ lastOp'.op = "update_details" /\ lastOp'.msg = "raised")
          => videos' = videos /\ files' = files
       /\ (lastOp'.op = "cell_changed 1" /\ TheVal(lastOp'.path) \notin files)
          => lastOp'.msg = RenameError]_vars

\* Update Details failed to move the file of a listed entry
C3_Witness ==
    /\ lastOp.op = "update_details"
    /\ lastOp.msg = "raised"
    /\ lastOp.path # None
    /\ \E i \in DOMAIN videos : Some(videos[i].path) = lastOp.path

\* the rows of before with the rating of those under path p set to r
WithRating(v, p, r) ==
    [i \in DOMAIN v |->
        IF v[i].path = p
        THEN Row(v[i].path, v[i].name, r, v[i].opened_at) ELSE v[i]]

\* C4: a rating edit whose text parses sets the rating of every row under
\* the path to the parsed value and changes nothing else: by a cell edit,
\* and by Update Details (there under the path the entry has after the
\* rename the same request may carry).
C4_SetRating ==
    [][/\ (lastOp'.op = "cell_changed 0" /\ float(lastOp'.arg).ok)
          => videos' = WithRating(videos, TheVal(lastOp'.path),
                                  Some(float(lastOp'.arg).val))
       /\ (/\ lastOp'.op = "update_details"
           /\ lastOp'.msg # "raised"
           /\ float(lastOp'.arg).ok
           /\ selected_video_path # None)
          => LET p == TheVal(selected_video_path)
                 q == TheVal(selected_video_path')
                 r == Some(float(lastOp'.arg).val)
             IN  /\ lastOp'.msg = Success
                 /\ Len(videos') = Len(videos)
                 /\ \A i \in DOMAIN videos :
                      IF videos[i].path \in {p, q}
                      THEN /\ videos'[i].rating = r
                           /\ videos'[i].opened_at = videos[i].opened_at
                           /\ videos'[i].path \in {videos[i].path, q}
                      ELSE videos'[i] = videos[i]
                 /\ lastOp'.log = <<"update rating">>
                      => videos' = WithRating(videos, p, r)]_vars

\* a cell edit rated one of two entries 11 and left the other, under
\* another path, unrated
C4_Witness ==
    /\ lastOp.op = "cell_changed 0"
    /\ lastOp.arg = "11"
    /\ \E i, j \in DOMAIN videos :
          /\ Some(videos[i].path) = lastOp.path
          /\ videos[i].rating = Some(110)
          /\ videos[j].path # videos[i].path
          /\ videos[j].rating = None

\* C5: a rating edit whose text does not parse changes no state, by a cell
\* edit or by Update Details: the rows and the files on disk stay as they
\* were (stated here for text that is not empty).
C5_InvalidRatingNoChange ==
    [][(/\ lastOp'.op \in {"cell_changed 0", "update_details"}
        /\ lastOp'.arg # ""
        /\ ~float(lastOp'.arg).ok)
       => videos' = videos /\ files' = files]_vars

\* C6: a confirmed delete whose path matches no row changes no state: the
\* rows and the snapshot in the undo slot stay as they were.
C6_DeleteNotFound ==
    [][(/\ lastOp'.op = "delete_selected_entry"
        /\ lastOp'.log = <<"delete">>
        /\ lastOp'.rows = <<>>)
       => videos' = videos /\ last_deleted_entry' = last_deleted_entry]_vars

\* open_random_video has just recorded the file it chose
Recorded ==
    lastOp.op = "open_random_video" /\ lastOp.log = <<"launch", "insert">>

\* C7 as claimed: the most recent entry read right after a file was
\* recorded is an entry of that file's path.
C7_MostRecentIsRecorded ==
    [][(Recorded /\ lastOp'.op = "__init__") => lastOp'.path = lastOp.path]_vars

\* C7 as amended: it is an entry of that path when every entry of another
\* path has an opened_at before that of the entry just recorded.
C7_MostRecentUnlessTie ==
    [][(/\ Recorded
        /\ lastOp'.op = "__init__"
        /\ \A i \in DOMAIN videos :
              Some(videos[i].path) # lastOp.path
                 => videos[i].opened_at < videos[Len(videos)].opened_at)
       => lastOp'.path = lastOp.path]_vars

\* the entry read after a recording is the recorded one, beside an older
\* entry of another path
C7_Witness ==
    /\ lastOp.op = "__init__"
    /\ lastOp.after = <<"open_random_video", "">>
    /\ Len(videos) >= 2
    /\ lastOp.path = Some(videos[Len(videos)].path)
    /\ \E i \in DOMAIN videos :
          /\ Some(videos[i].path) # lastOp.path
          /\ videos[i].opened_at < videos[Len(videos)].opened_at

\* C11: in every state each row's rating is absent or a number from 0.0 to
\* 10.0 (0 to 100 tenths).
C11_RatingInRange ==
    \A i \in DOMAIN videos :
        \/ videos[i].rating = None
        \/ TheVal(videos[i].rating) \in 0 .. 100

\* C12: the slot holds one snapshot.  A confirmed delete that found rows
\* under its path puts one of the rows it removed into the slot, whatever
\* the slot held; an undo that finds a snapshot inserts it once and empties
\* the slot; the undo right after such an undo reports NothingToUndo and
\* inserts nothing; and only a delete, an undo and a restart change the slot.
C12_SingleSlot ==
    [][/\ (lastOp'.op = "delete_selected_entry" /\ lastOp'.rows # <<>>)
          => /\ last_deleted_entry' # None
             /\ \E j \in DOMAIN lastOp'.rows :
                   TheVal(last_deleted_entry') = lastOp'.rows[j]
             /\ \A i \in DOMAIN videos' :
                   videos'[i].path # TheVal(last_deleted_entry').path
       /\ (lastOp'.op = "undo_last_delete" /\ last_deleted_entry # None)
          => /\ lastOp'.msg = Restored
             /\ videos' = Append(videos, TheVal(last_deleted_entry))
             /\ last_deleted_entry' = None
       /\ (/\ lastOp.op = "undo_last_delete"
           /\ lastOp.msg = Restored
           /\ lastOp'.op = "undo_last_delete")
          => lastOp'.msg = NothingToUndo /\ videos' = videos
       /\ lastOp'.op \notin {"delete_selected_entry", "undo_last_delete",
                              "__init__"}
          => last_deleted_entry' = last_deleted_entry]_vars

\* a delete has just replaced the snapshot of an entry of another path by
\* the entry it removed
C12_Witness ==
    /\ lastOp.op = "delete_selected_entry"
    /\ lastOp.rows # <<>>
    /\ lastOp.slot # None
    /\ last_deleted_entry = Some(lastOp.rows[1])
    /\ TheVal(lastOp.slot).path # TheVal(last_deleted_entry).path

\* a path as the string the program holds
PathStr(p) == p.dir \o "/" \o p.stem \o p.ext

\* C13: a rename that moved the file leaves every row that was under the
\* path p with the path directory(p)/newName+ext(p) and the name
\* newName+ext(p), which is the base name of its path, with the extension,
\* rating and opened_at it had, and leaves the rows of other paths as they
\* were: by a cell edit, and by Update Details (there the rating part of the
\* same request may set ratings under the new path unless its text is
\* refused).
C13_RenameSucceeded ==
    [][/\ (lastOp'.op = "cell_changed 1" /\ lastOp'.msg = "")
          => LET p == TheVal(lastOp'.path)
                 n == lastOp'.arg
             IN  /\ Len(videos') = Len(videos)
                 /\ \A i \in DOMAIN videos :
                      IF videos[i].path = p
                      THEN /\ PathStr(videos'[i].path)
                                = dirname(p) \o "/" \o n \o splitext(p)
                           /\ videos'[i].name = n \o splitext(p)
                           /\ videos'[i].name = basename(videos'[i].path)
                           /\ splitext(videos'[i].path) = splitext(p)
                           /\ videos'[i].rating = videos[i].rating
                           /\ videos'[i].opened_at = videos[i].opened_at
                      ELSE videos'[i] = videos[i]
       /\ (/\ lastOp'.op = "update_details"
           /\ lastOp'.log # <<>>
           /\ Head(lastOp'.log) = "rename")
          => LET p == TheVal(selected_video_path)
                 q == TheVal(selected_video_path')
                 refused == lastOp'.msg = InvalidRating
             IN  /\ Len(videos') = Len(videos)
                 /\ \A i \in DOMAIN videos :
                      IF videos[i].path = p
                      THEN /\ videos'[i].path = q
                           /\ videos'[i].name = basename(q)
                           /\ splitext(q) = splitext(p)
                           /\ videos'[i].opened_at = videos[i].opened_at
                           /\ refused => videos'[i].rating = videos[i].rating
                      ELSE IF videos[i].path = q /\ ~refused
                      THEN /\ videos'[i].path = videos[i].path
                           /\ videos'[i].name = videos[i].name
                           /\ videos'[i].opened_at = videos[i].opened_at
                      ELSE videos'[i] = videos[i]]_vars

\* C14 as claimed: when open_random_video has chosen a file, the file is
\* recorded before the launcher is asked to open it, so that a row of its
\* path is there whenever the launch was requested.
C14_RecordBeforeLaunch ==
    [][(lastOp'.op = "open_random_video" /\ lastOp'.path # None)
       => /\ lastOp'.log # <<>>
          /\ Head(lastOp'.log) = "insert"
          /\ \E i \in DOMAIN videos' :
                videos'[i].path = TheVal(lastOp'.path)]_vars

\* C14 as amended: the launcher is asked first; when its call returns the
\* chosen file is recorded as one new row, and when it raises nothing is
\* recorded.
C14_LaunchBeforeRecord ==
    [][(lastOp'.op = "open_random_video" /\ lastOp'.path # None)
       => LET chosen == TheVal(lastOp'.path) IN
          /\ lastOp'.log # <<>>
          /\ Head(lastOp'.log) = "launch"
          /\ IF lastOp'.msg = "raised"
             THEN lastOp'.log = <<"launch">> /\ videos' = videos
             ELSE /\ lastOp'.log = <<"launch", "insert">>
                  /\ videos' = Append(videos, Row(chosen, basename(chosen),
                                                  None, clock'))]_vars

\* the launcher raised for a chosen file of which the history has no row,
\* beside a row of another file
C14_Witness ==
    /\ lastOp.op = "open_random_video"
    /\ lastOp.msg = "raised"
    /\ lastOp.path # None
    /\ videos # <<>>
    /\ \A i \in DOMAIN videos : Some(videos[i].path) # lastOp.path

\* how often the row r occurs in the sequence of rows v, and whether two
\* sequences hold the same rows as often
Count(v, r) == Cardinality({i \in DOMAIN v : v[i] = r})
SameRows(v, w) ==
    \A r \in {v[i] : i \in DOMAIN v} \cup {w[i] : i \in DOMAIN w} :
        Count(v, r) = Count(w, r)

\* C15: a confirmed delete followed at once by undo leaves the rows the
\* table held before the delete, each as often as before: the rows the
\* delete left, with the rows it found under its path.
C15_DeleteUndoRestoresStore ==
    [][(/\ lastOp.op = "delete_selected_entry"
        /\ lastOp.log = <<"delete">>
        /\ lastOp'.op = "undo_last_delete")
       => SameRows(videos', videos \o lastOp.rows)]_vars
====
